---- MODULE Spec2Model ----
(***************************************************************************)
(* Model of helper_funcs.py: the streaming CSV reader                      *)
(* (create_csv_records_iterator_from_zip_file), the field normalizers, the *)
(* batch inserter and the migration driver                                 *)
(* (migrate_craigslist_records_csv_from_zip_to_db).                        *)
(*                                                                         *)
(* A string is a sequence of one-character strings.  A cell value of a     *)
(* normalized row is a record [t, s, n]: t = "none" (Python None),         *)
(* t = "str" (string s), t = "int" (integer n), and t = "missing" for a    *)
(* key the dict does not hold.  A validated record is identified by the    *)
(* 1-based position of its CSV data line.  max_rows_to_parse = 0 stands    *)
(* for None (both are falsy in `if max_rows_to_parse and ...`).            *)
(***************************************************************************)
EXTENDS Integers, Sequences, FiniteSets, TLC

VARIABLES
    csv_headers,                  \* header row read at line 53
    lines,                        \* the CSV data lines of the entry (input)
    batch_size,                   \* parameter, line 95
    max_rows_to_parse,            \* parameter, line 96 (0 = None)
    pos,                          \* data lines consumed by the generator
    current_record_dict,          \* last row yielded by the generator
    current_batch,                \* line 108
    rows_count_in_current_batch,  \* line 105
    total_rows_parsed,            \* line 106
    total_rows_inserted,          \* line 107
    pc,                           \* "loop" | "final" | "done" | "aborted"
    error,                        \* "none" | "StorageError" | "KeyError"
    calls,                        \* batches handed to the inserter, in order
    committed                     \* records committed to storage

vars == <<csv_headers, lines, batch_size, max_rows_to_parse, pos,
          current_record_dict, current_batch, rows_count_in_current_batch,
          total_rows_parsed, total_rows_inserted, pc, error, calls, committed>>

\* ------------------------------------------------------------------ bounds
MaxLines == 5
MaxBatchSize == 3
MaxMaxRows == 2
\* cap on recorded inserter calls; only a run with batch_size = 0 reaches it
MaxCalls == MaxLines + 2

\* ------------------------------------------------------------ value domain
None == [t |-> "none", s |-> <<>>, n |-> 0]
Missing == [t |-> "missing", s |-> <<>>, n |-> 0]
Str(s) == [t |-> "str", s |-> s, n |-> 0]
IntVal(n) == [t |-> "int", s |-> <<>>, n |-> n]

HeaderNames == {"a", "cylinders"}
HeaderRows == {<<"a", "cylinders">>, <<"cylinders", "a">>}

IsSpace(c) == c = " "
IsDigit(c) == c \in {"6", "8"}
DigitVal(c) == IF c = "6" THEN 6 ELSE 8

Min(x, y) == IF x < y THEN x ELSE y

\* ------------------------------------------------------- field normalizers
RECURSIVE LStrip(_)
LStrip(s) == IF s # <<>> /\ IsSpace(Head(s)) THEN LStrip(Tail(s)) ELSE s

RECURSIVE RStrip(_)
RStrip(s) ==
    IF s # <<>> /\ IsSpace(s[Len(s)]) THEN RStrip(SubSeq(s, 1, Len(s) - 1)) ELSE s

strip_strings_and_replace_empty_strings_with_none(input_str) ==
    LET stripped == RStrip(LStrip(input_str))
    IN  IF stripped # <<>> THEN Str(stripped) ELSE None

\* the digits matched by re.match(r"(\d+)", s): the longest run at position 0
RECURSIVE LeadingDigits(_)
LeadingDigits(s) ==
    IF s # <<>> /\ IsDigit(Head(s)) THEN <<Head(s)>> \o LeadingDigits(Tail(s)) ELSE <<>>

RECURSIVE DecimalValue(_)
DecimalValue(ds) ==
    IF ds = <<>> THEN 0
    ELSE 10 * DecimalValue(SubSeq(ds, 1, Len(ds) - 1)) + DigitVal(ds[Len(ds)])

extract_cylinders_int_value_from_cylinders_str(cylinders_str) ==
    IF cylinders_str.t = "none" THEN None
    ELSE IF LeadingDigits(cylinders_str.s) # <<>>
         THEN IntVal(DecimalValue(LeadingDigits(cylinders_str.s)))
         ELSE None

\* ------------------------------------------------------------------ reader
\* dict(zip(csv_headers, map(strip..., line))): zip stops at the shorter one
ZipDict(headers, cells) ==
    [h \in HeaderNames |->
        IF \E i \in 1..Min(Len(headers), Len(cells)) : headers[i] = h
        THEN LET i == CHOOSE j \in 1..Min(Len(headers), Len(cells)) : headers[j] = h
             IN  strip_strings_and_replace_empty_strings_with_none(cells[i])
        ELSE Missing]

\* line_record_dict["cylinders"] raises KeyError when the key is not held
RaisesKeyError(headers, cells) == ZipDict(headers, cells)["cylinders"].t = "missing"

NormalizedRow(headers, cells) ==
    [ZipDict(headers, cells) EXCEPT
        !["cylinders"] = extract_cylinders_int_value_from_cylinders_str(@)]

\* ------------------------------------------------------------------ inputs
\* " x ", "6 c": a well-formed line that validates
GoodLine == [cells |-> << <<" ", "x", " ">>, <<"6", " ", "c">> >>, valid |-> TRUE]
\* "", "c", "x": one cell more than headers; validation rejects the row
BadLine == [cells |-> << <<>>, <<"c">>, <<"x">> >>, valid |-> FALSE]
\* "8": one cell fewer than headers
ShortLine == [cells |-> << <<"8">> >>, valid |-> TRUE]

InputLines == {GoodLine, BadLine, ShortLine}

RECURSIVE SeqsUpTo(_, _)
SeqsUpTo(S, n) ==
    IF n = 0 THEN {<<>>}
    ELSE LET shorter == SeqsUpTo(S, n - 1)
         IN  shorter \cup {Append(q, x) : q \in {r \in shorter : Len(r) = n - 1}, x \in S}

\* validate_craigslist_vehicle_record_dict: the outcome is an input of the run
ValidationPasses(line) == line.valid

\* ---------------------------------------------------------------- inserter
SeqRange(q) == {q[i] : i \in 1..Len(q)}

\* session.add_all(batch); session.commit()
InsertCommits(batch) ==
    /\ calls' = Append(calls, batch)
    /\ committed' = committed \cup SeqRange(batch)

\* the commit raises; the session is rolled back and closed
InsertRaises(batch) ==
    /\ calls' = Append(calls, batch)
    /\ committed' = committed
    /\ pc' = "aborted"
    /\ error' = "StorageError"

\* ------------------------------------------------------------------ driver
Init ==
    /\ csv_headers \in HeaderRows
    /\ lines \in SeqsUpTo(InputLines, MaxLines)
    /\ batch_size \in 0..MaxBatchSize
    /\ max_rows_to_parse \in 0..MaxMaxRows
    /\ pos = 0
    /\ current_record_dict = [h \in HeaderNames |-> Missing]
    /\ current_batch = <<>>
    /\ rows_count_in_current_batch = 0
    /\ total_rows_parsed = 0
    /\ total_rows_inserted = 0
    /\ pc = "loop"
    /\ error = "none"
    /\ calls = <<>>
    /\ committed = {}

inputs == <<csv_headers, lines, batch_size, max_rows_to_parse>>
storage == <<calls, committed>>
counters == <<current_batch, rows_count_in_current_batch, total_rows_parsed,
              total_rows_inserted>>

\* line 112
BatchHasRoomOffByOne == rows_count_in_current_batch <= batch_size
BatchHasRoom == rows_count_in_current_batch < batch_size

\* line 133
MaxRowsReached == max_rows_to_parse # 0 /\ total_rows_parsed >= max_rows_to_parse

\* lines 113-120: next() yields a row and validation passes
ReadValid ==
    /\ pc = "loop" /\ BatchHasRoom
    /\ pos < Len(lines)
    /\ ~RaisesKeyError(csv_headers, lines[pos + 1].cells)
    /\ ValidationPasses(lines[pos + 1])
    /\ pos' = pos + 1
    /\ current_record_dict' = NormalizedRow(csv_headers, lines[pos + 1].cells)
    /\ current_batch' = Append(current_batch, pos + 1)
    /\ rows_count_in_current_batch' = rows_count_in_current_batch + 1
    /\ total_rows_parsed' = total_rows_parsed + 1
    /\ UNCHANGED <<inputs, storage, total_rows_inserted, pc, error>>

\* lines 113-117, 121-125: validation raises, the row is printed and skipped
ReadInvalidAppends ==
    /\ pc = "loop" /\ BatchHasRoom
    /\ pos < Len(lines)
    /\ ~RaisesKeyError(csv_headers, lines[pos + 1].cells)
    /\ ~ValidationPasses(lines[pos + 1])
    /\ pos' = pos + 1
    /\ current_record_dict' = NormalizedRow(csv_headers, lines[pos + 1].cells)
    /\ current_batch' = Append(current_batch, pos + 1)
    /\ rows_count_in_current_batch' = rows_count_in_current_batch + 1
    /\ UNCHANGED <<inputs, storage, total_rows_parsed, total_rows_inserted, pc, error>>

ReadInvalid ==
    /\ pc = "loop" /\ BatchHasRoom
    /\ pos < Len(lines)
    /\ ~RaisesKeyError(csv_headers, lines[pos + 1].cells)
    /\ ~ValidationPasses(lines[pos + 1])
    /\ pos' = pos + 1
    /\ current_record_dict' = NormalizedRow(csv_headers, lines[pos + 1].cells)
    /\ UNCHANGED <<inputs, storage, counters, pc, error>>

\* lines 113, 57-61: the generator raises KeyError, which the driver's
\* `except StopIteration` does not catch
ReadKeyError ==
    /\ pc = "loop" /\ BatchHasRoom
    /\ pos < Len(lines)
    /\ RaisesKeyError(csv_headers, lines[pos + 1].cells)
    /\ pos' = pos + 1
    /\ pc' = "aborted"
    /\ error' = "KeyError"
    /\ UNCHANGED <<inputs, storage, counters, current_record_dict>>

\* lines 113, 137-138: the generator is exhausted
ReadStopIteration ==
    /\ pc = "loop" /\ BatchHasRoom
    /\ pos = Len(lines)
    /\ pc' = "final"
    /\ UNCHANGED <<inputs, storage, counters, pos, current_record_dict, error>>

\* lines 126-136 with the max-rows test false: insert, count, clear
LoopInsertContinueNoReset ==
    /\ pc = "loop" /\ ~BatchHasRoom
    /\ Len(calls) < MaxCalls
    /\ ~MaxRowsReached
    /\ InsertCommits(current_batch)
    /\ total_rows_inserted' = total_rows_inserted + rows_count_in_current_batch
    /\ current_batch' = <<>>
    /\ UNCHANGED <<inputs, pos, current_record_dict, total_rows_parsed, pc, error,
                   rows_count_in_current_batch>>

LoopInsertContinue ==
    /\ pc = "loop" /\ ~BatchHasRoom
    /\ Len(calls) < MaxCalls
    /\ ~MaxRowsReached
    /\ InsertCommits(current_batch)
    /\ total_rows_inserted' = total_rows_inserted + rows_count_in_current_batch
    /\ rows_count_in_current_batch' = 0
    /\ current_batch' = <<>>
    /\ UNCHANGED <<inputs, pos, current_record_dict, total_rows_parsed, pc, error>>

\* lines 126-134 with the max-rows test true: insert, count, break
LoopInsertBreak ==
    /\ pc = "loop" /\ ~BatchHasRoom
    /\ Len(calls) < MaxCalls
    /\ MaxRowsReached
    /\ InsertCommits(current_batch)
    /\ total_rows_inserted' = total_rows_inserted + rows_count_in_current_batch
    /\ pc' = "final"
    /\ UNCHANGED <<inputs, pos, current_record_dict, current_batch,
                   rows_count_in_current_batch, total_rows_parsed, error>>

\* line 128 raises
LoopInsertRaises ==
    /\ pc = "loop" /\ ~BatchHasRoom
    /\ Len(calls) < MaxCalls
    /\ InsertRaises(current_batch)
    /\ UNCHANGED <<inputs, pos, current_record_dict, counters>>

\* lines 139-148: the final batch is inserted, the totals are printed
FinalInsert ==
    /\ pc = "final" /\ current_batch # <<>>
    /\ InsertCommits(current_batch)
    /\ total_rows_inserted' = total_rows_inserted + rows_count_in_current_batch
    /\ pc' = "done"
    /\ UNCHANGED <<inputs, pos, current_record_dict, current_batch,
                   rows_count_in_current_batch, total_rows_parsed, error>>

\* line 141 raises
FinalInsertRaises ==
    /\ pc = "final" /\ current_batch # <<>>
    /\ InsertRaises(current_batch)
    /\ UNCHANGED <<inputs, pos, current_record_dict, counters>>

\* lines 139, 146-148: nothing left to insert
FinalNoInsert ==
    /\ pc = "final" /\ current_batch = <<>>
    /\ pc' = "done"
    /\ UNCHANGED <<inputs, storage, counters, pos, current_record_dict, error>>

Next ==
    \/ ReadValid
    \/ ReadInvalid
    \/ ReadKeyError
    \/ ReadStopIteration
    \/ LoopInsertContinue
    \/ LoopInsertBreak
    \/ LoopInsertRaises
    \/ FinalInsert
    \/ FinalInsertRaises
    \/ FinalNoInsert

Spec == Init /\ [][Next]_vars

\* every step of the function is taken in turn until it returns or raises
FairSpec == Spec /\ WF_vars(Next)

TypeOK ==
    /\ pc \in {"loop", "final", "done", "aborted"}
    /\ error \in {"none", "StorageError", "KeyError"}
    /\ pos \in 0..Len(lines)
    /\ Len(calls) <= MaxCalls

\* ----------------------------------------------------- derived quantities
\* the generator yields a row for data line i and validation accepts it
RowIsValid(i) ==
    ~RaisesKeyError(csv_headers, lines[i].cells) /\ ValidationPasses(lines[i])

\* the generator yields a row for data line i and validation raises
RowIsInvalid(i) ==
    ~RaisesKeyError(csv_headers, lines[i].cells) /\ ~ValidationPasses(lines[i])

NoKeyErrorLine == \A i \in 1..Len(lines) : ~RaisesKeyError(csv_headers, lines[i].cells)

\* positions of the valid rows among the first n data lines, in CSV order
RECURSIVE ValidIds(_)
ValidIds(n) ==
    IF n = 0 THEN <<>>
    ELSE IF RowIsValid(n) THEN Append(ValidIds(n - 1), n) ELSE ValidIds(n - 1)

RECURSIVE Flatten(_)
Flatten(qs) == IF qs = <<>> THEN <<>> ELSE Head(qs) \o Flatten(Tail(qs))

Ceil(n, b) == (n + b - 1) \div b

IsPrefix(p, q) == Len(p) <= Len(q) /\ SubSeq(q, 1, Len(p)) = p

HandedOver == UNION {SeqRange(calls[i]) : i \in 1..Len(calls)}

\* ------------------------------------------------------------------ claims

\* C1: with no max-rows limit and no storage error, N valid rows and a batch
\* capacity B >= 1 give exactly ceil(N/B) inserter calls, in CSV order, all but
\* the last of B records, the last of N - B*(ceil(N/B)-1), and
\* total_rows_inserted = N when the driver is done.
C1_CallsAreCeilNOverB ==
    (pc = "done" /\ max_rows_to_parse = 0 /\ batch_size >= 1) =>
        LET N == Len(ValidIds(Len(lines)))
            K == Ceil(N, batch_size)
        IN  /\ Len(calls) = K
            /\ \A i \in 1..(K - 1) : Len(calls[i]) = batch_size
            /\ K > 0 => Len(calls[K]) = N - batch_size * (K - 1)
            /\ Flatten(calls) = ValidIds(Len(lines))
            /\ total_rows_inserted = N

C1_Witness ==
    /\ pc = "done" /\ max_rows_to_parse = 0 /\ batch_size = 2
    /\ Len(ValidIds(Len(lines))) = 5
    /\ Len(calls) = 3

\* C2: with max_rows_to_parse = M set, a batch capacity above M and more than
\* M valid rows in the input, the driver is done after parsing exactly M valid
\* rows and has made one inserter call of at most M records.
C2_StopsAtMaxRows ==
    (/\ pc = "done" /\ max_rows_to_parse # 0 /\ batch_size > max_rows_to_parse
     /\ NoKeyErrorLine
     /\ Len(ValidIds(Len(lines))) > max_rows_to_parse) =>
        /\ total_rows_parsed = max_rows_to_parse
        /\ Len(ValidIds(pos)) = max_rows_to_parse
        /\ Len(calls) = 1
        /\ Len(calls[1]) <= max_rows_to_parse

\* C3: a row whose validation raises is in no batch, current or handed to the
\* inserter, and is counted neither in total_rows_parsed nor in the in-batch
\* counter; the step that skips it leaves the driver in its loop with room in
\* the batch, so that the next step pulls the next row; and a run without
\* max-rows limit that is done has parsed and handed over every valid row.
C3_State ==
    /\ \A i \in 1..Len(lines) :
          RowIsInvalid(i) => i \notin SeqRange(current_batch) \cup HandedOver
    /\ total_rows_parsed = Len(ValidIds(pos))
    /\ rows_count_in_current_batch = Len(current_batch)
    /\ (pc = "done" /\ max_rows_to_parse = 0) =>
          /\ total_rows_parsed = Len(ValidIds(Len(lines)))
          /\ SeqRange(ValidIds(Len(lines))) \subseteq HandedOver

C3_Step ==
    (pos' = pos + 1 /\ RowIsInvalid(pos + 1)) =>
        /\ UNCHANGED <<counters, storage>>
        /\ pc' = "loop" /\ error' = "none"
        /\ BatchHasRoom'

C3_InvalidRowSkipped == []C3_State /\ [][C3_Step]_vars

C3_Witness ==
    /\ pc = "done"
    /\ \E i, j \in 1..Len(lines) :
          i < j /\ RowIsInvalid(i) /\ RowIsValid(j) /\ j \in HandedOver

\* C4: when an inserter call raises a storage error the run is aborted, the
\* records of every earlier call are committed and no record of the failed
\* batch is committed.
C4_StorageErrorAborts ==
    error = "StorageError" =>
        /\ pc = "aborted"
        /\ \A i \in 1..(Len(calls) - 1) : SeqRange(calls[i]) \subseteq committed
        /\ SeqRange(calls[Len(calls)]) \cap committed = {}

\* C5: a data line whose cell count differs from the header count still
\* yields a row: the headers map positionally to the first cells, every
\* header beyond the last cell maps to None, cells beyond the last header are
\* dropped.
ExpectedRow(headers, cells) ==
    LET padded == [h \in HeaderNames |->
            LET i == CHOOSE j \in 1..Len(headers) : headers[j] = h
            IN  IF i <= Len(cells)
                THEN strip_strings_and_replace_empty_strings_with_none(cells[i])
                ELSE None]
    IN  [padded EXCEPT !["cylinders"] = extract_cylinders_int_value_from_cylinders_str(@)]

C5_MismatchedLineYieldsRow ==
    (pos > 0 /\ Len(lines[pos].cells) # Len(csv_headers)) =>
        /\ error # "KeyError"
        /\ current_record_dict = ExpectedRow(csv_headers, lines[pos].cells)

C7_FlushClearsBatch ==
    [][(pc = "loop" /\ Len(calls') = Len(calls) + 1 /\ error' = "none") =>
          (current_batch' = <<>> /\ rows_count_in_current_batch' = 0)]_vars

\* C8: for every batch capacity >= 0 the current batch never holds more than
\* batch_size records, and every batch handed to the inserter holds between 1
\* and batch_size records.
C8_BatchWithinCapacity ==
    /\ Len(current_batch) <= batch_size
    /\ \A i \in 1..Len(calls) : 1 <= Len(calls[i]) /\ Len(calls[i]) <= batch_size

\* C9: in a run that is done, with batch capacity >= 1, total_rows_inserted
\* equals total_rows_parsed and both equal the number of distinct records
\* handed to the inserter.
C9_InsertedEqualsParsed ==
    (pc = "done" /\ batch_size >= 1) =>
        /\ total_rows_inserted = total_rows_parsed
        /\ total_rows_parsed = Cardinality(HandedOver)

\* C10: with batch capacity >= 1 no record is handed to the inserter in more
\* than one call, and the batches handed over, concatenated in call order,
\* are a prefix of the valid rows in CSV order (all of them when the run is
\* done and no max-rows limit is set).
C10_HandedOverOnceInOrder ==
    batch_size >= 1 =>
        /\ \A i, j \in 1..Len(calls) :
              i # j => SeqRange(calls[i]) \cap SeqRange(calls[j]) = {}
        /\ IsPrefix(Flatten(calls), ValidIds(Len(lines)))
        /\ (pc = "done" /\ max_rows_to_parse = 0) =>
              Flatten(calls) = ValidIds(Len(lines))
====
